---- MODULE Spec2Model ----
(***************************************************************************)
(* Model of the indicator-and-gate decision pipeline:                      *)
(*   backtest/pattern_filters.py  (_canon, _col, _last_valid, pattern_gate)*)
(*   backtest/pattern_gate.py     (the compact-signals pattern_gate)       *)
(*                                                                         *)
(* Conventions.                                                            *)
(*  - A Python str is a sequence of one-character strings, so that strip,  *)
(*    lower, replace and the substring test "w in k" are computed.         *)
(*  - A column label is [tuple |-> BOOLEAN, parts |-> Seq(str)]: a plain   *)
(*    string label has one part, a MultiIndex label has one part per level.*)
(*  - A float is [k |-> "num", n |-> Int, d |-> Int] (the rational n/d,    *)
(*    d > 0) or NaN; a raw cell may also be Text (a non-numeric object).   *)
(*  - Series are 1-based sequences: row i of the model is iloc[i-1].       *)
(***************************************************************************)
EXTENDS Integers, Sequences, FiniteSets, TLC

VARIABLES df, args, call, ret

vars == <<df, args, call, ret>>

(***************************************************************************)
(* Python strings                                                          *)
(***************************************************************************)
UpperCase == <<"A","B","C","D","E","F","G","H","I","J","K","L","M",
               "N","O","P","Q","R","S","T","U","V","W","X","Y","Z">>
LowerCase == <<"a","b","c","d","e","f","g","h","i","j","k","l","m",
               "n","o","p","q","r","s","t","u","v","w","x","y","z">>

\* str.lower() on one character
LowerChar(ch) ==
    LET hit == {i \in 1..26 : UpperCase[i] = ch}
    IN  IF hit = {} THEN ch ELSE LowerCase[CHOOSE i \in hit : TRUE]

\* str.lower()
lower(s) == [i \in 1..Len(s) |-> LowerChar(s[i])]

\* str.strip(): drop leading and trailing blanks
strip(s) ==
    LET nb == {i \in 1..Len(s) : s[i] # " "}
    IN  IF nb = {} THEN <<>>
        ELSE LET lo == CHOOSE i \in nb : \A j \in nb : i <= j
                 hi == CHOOSE i \in nb : \A j \in nb : i >= j
             IN  SubSeq(s, lo, hi)

\* str.replace(ch, "") for a one-character ch
remove(s, ch) == SelectSeq(s, LAMBDA x : x # ch)

\* the Python test  w in k  on two strings
contains(k, w) ==
    \E p \in 0..(Len(k) - Len(w)) : \A j \in 1..Len(w) : k[p + j] = w[j]

\* repr() of a str part and str() of a tuple label, as str(col) on line 16 builds it
reprStr(s) == <<"'">> \o s \o <<"'">>

RECURSIVE joinRepr(_)
joinRepr(parts) ==
    IF parts = <<>> THEN <<>>
    ELSE IF Len(parts) = 1 THEN reprStr(parts[1])
    ELSE reprStr(parts[1]) \o <<",", " ">> \o joinRepr(Tail(parts))

strTuple(parts) ==
    <<"(">> \o joinRepr(parts) \o (IF Len(parts) = 1 THEN <<",">> ELSE <<>>) \o <<")">>

(***************************************************************************)
(* backtest/pattern_filters.py : _canon                                    *)
(***************************************************************************)
\* the parts a reversed(col) scan accepts: non-empty after strip
NonBlankParts(parts) == {i \in 1..Len(parts) : strip(parts[i]) # <<>>}

_canon(col) ==
    IF col.tuple
    THEN IF NonBlankParts(col.parts) # {}
         THEN LET i == CHOOSE x \in NonBlankParts(col.parts) :
                          \A y \in NonBlankParts(col.parts) : x >= y
              IN  lower(strip(col.parts[i]))
         ELSE lower(strTuple(col.parts))
    ELSE lower(strip(col.parts[1]))

(***************************************************************************)
(* backtest/pattern_filters.py : _col                                      *)
(***************************************************************************)
\* the three lookup keys of lines 24-26 and 31
Keys3(k) == <<k, remove(k, " "), remove(remove(k, " "), "_")>>

\* dict assignment cmap[key] = c: an existing key keeps its position
DictPut(m, key, c) ==
    IF \E i \in 1..Len(m) : m[i].key = key
    THEN [i \in 1..Len(m) |-> IF m[i].key = key THEN [key |-> key, val |-> c] ELSE m[i]]
    ELSE Append(m, [key |-> key, val |-> c])

RECURSIVE BuildCmap(_, _)
BuildCmap(columns, m) ==
    IF columns = <<>> THEN m
    ELSE LET c  == Head(columns)
             ks == Keys3(_canon(c))
         IN  BuildCmap(Tail(columns),
                       DictPut(DictPut(DictPut(m, ks[1], c), ks[2], c), ks[3], c))

RECURSIVE BuildWant(_)
BuildWant(candidates) ==
    IF candidates = <<>> THEN <<>>
    ELSE Keys3(lower(Head(candidates))) \o BuildWant(Tail(candidates))

DictHas(m, key) == \E i \in 1..Len(m) : m[i].key = key
DictGet(m, key) == m[CHOOSE i \in 1..Len(m) : m[i].key = key].val

Returned(v) == [raised |-> "none", value |-> v]
Raised(e)   == [raised |-> e, value |-> <<>>]

\* lines 34-36: the first wanted key that is a key of cmap
ExactHits(cmap, want) == {i \in 1..Len(want) : DictHas(cmap, want[i])}
\* lines 39-41: the first cmap entry whose key contains some wanted key
LooseHits(cmap, want) ==
    {i \in 1..Len(cmap) : \E j \in 1..Len(want) : contains(cmap[i].key, want[j])}

MinOf(S) == CHOOSE x \in S : \A y \in S : x <= y
MaxOf(S) == CHOOSE x \in S : \A y \in S : x >= y

\* a variant of _col: the substring pass comes first
colLooseFirst(columns, candidates) ==
    LET cmap == BuildCmap(columns, <<>>)
        want == BuildWant(candidates)
        exact == ExactHits(cmap, want)
        loose == LooseHits(cmap, want)
    IN  IF loose # {}
        THEN Returned(cmap[MinOf(loose)].val)
        ELSE IF exact # {}
        THEN Returned(DictGet(cmap, want[MinOf(exact)]))
        ELSE Raised("KeyError")

_col(columns, candidates) ==
    LET cmap == BuildCmap(columns, <<>>)
        want == BuildWant(candidates)
        exact == ExactHits(cmap, want)
        loose == LooseHits(cmap, want)
    IN  IF exact # {}
        THEN Returned(DictGet(cmap, want[MinOf(exact)]))
        ELSE IF loose # {}
        THEN Returned(cmap[MinOf(loose)].val)
        ELSE Raised("KeyError")

(***************************************************************************)
(* Floats, missing values and series                                       *)
(***************************************************************************)
NaN     == [k |-> "nan",  n |-> 0, d |-> 1]
None    == [k |-> "none", n |-> 0, d |-> 1]
Text    == [k |-> "text", n |-> 0, d |-> 1]
Num(x)  == [k |-> "num",  n |-> x, d |-> 1]
Rat(x, y) == [k |-> "num", n |-> x, d |-> y]

IsNum(v) == v.k = "num"

\* a series held as a sequence
Series(f) == f \o <<>>

\* comparisons of two defined floats (denominators are positive)
RatLt(a, b) == a.n * b.d < b.n * a.d
RatEq(a, b) == a.n * b.d = b.n * a.d
RatLe(a, b) == a.n * b.d <= b.n * a.d

\* a float comparison: False as soon as one side is NaN / None
FloatLe(a, b) == IsNum(a) /\ IsNum(b) /\ RatLe(a, b)
FloatGt(a, b) == IsNum(a) /\ IsNum(b) /\ RatLt(b, a)

AbsInt(x) == IF x < 0 THEN -x ELSE x
Max2(x, y) == IF x >= y THEN x ELSE y
Min2(x, y) == IF x <= y THEN x ELSE y

\* pd.to_numeric(s, errors="coerce"): what is not a number becomes NaN
to_numeric(s) ==
    Series([i \in 1..Len(s) |-> IF s[i].k = "num" THEN s[i] ELSE NaN])

\* Series.shift(1)
shift1(s) ==
    Series([i \in 1..Len(s) |-> IF i = 1 THEN NaN ELSE s[i - 1]])

\* (a - b).abs() on two price series (integers, d = 1)
AbsDiff(a, b) ==
    Series([i \in 1..Len(a) |-> IF IsNum(a[i]) /\ IsNum(b[i])
                         THEN Num(AbsInt(a[i].n - b[i].n)) ELSE NaN])

\* the rows of the trailing window of length w ending at row i
Window(i, w) == Max2(1, i - w + 1)..i
\* the rows of that window holding an observation (not NaN)
Observed(s, i, w) == {j \in Window(i, w) : IsNum(s[j])}

RECURSIVE SumRange(_, _, _)
SumRange(s, lo, hi) ==
    IF lo > hi THEN 0
    ELSE (IF IsNum(s[hi]) THEN s[hi].n ELSE 0) + SumRange(s, lo, hi - 1)

RECURSIVE SumSqRange(_, _, _)
SumSqRange(s, lo, hi) ==
    IF lo > hi THEN 0
    ELSE (IF IsNum(s[hi]) THEN s[hi].n * s[hi].n ELSE 0) + SumSqRange(s, lo, hi - 1)

\* s.rolling(w, min_periods=minp).mean() of an integer series
RollingMean(s, w, minp) ==
    Series([i \in 1..Len(s) |->
        LET cnt == Cardinality(Observed(s, i, w))
        IN  IF cnt >= minp /\ cnt > 0
            THEN Rat(SumRange(s, Max2(1, i - w + 1), i), cnt)
            ELSE NaN])

\* s.rolling(w, min_periods=minp).max()
RollingMax(s, w, minp) ==
    Series([i \in 1..Len(s) |->
        LET obs == Observed(s, i, w)
        IN  IF Cardinality(obs) >= minp /\ obs # {}
            THEN Num(MaxOf({s[j].n : j \in obs}))
            ELSE NaN])

\* s.rolling(w, min_periods=minp).min()
RollingMin(s, w, minp) ==
    Series([i \in 1..Len(s) |->
        LET obs == Observed(s, i, w)
        IN  IF Cardinality(obs) >= minp /\ obs # {}
            THEN Num(MinOf({s[j].n : j \in obs}))
            ELSE NaN])

(***************************************************************************)
(* Bollinger band width, pattern_filters.py lines 84-88.                    *)
(* Over a window of cnt closes with sum S and sum of squares Q,             *)
(*   mid = S/cnt,  std(ddof=0) = sqrt(cnt*Q - S*S)/cnt,                     *)
(*   upper - lower = 2*bb_k*std,  bb_width = 2*bb_k*sqrt(cnt*Q - S*S)/S.    *)
(* The width is kept as the rational (cnt*Q - S*S)/(S*S), the square of     *)
(* bb_width/(2*bb_k): closes are not negative, so S > 0 wherever the width  *)
(* is defined, and the order of the widths is the order of these squares.   *)
(***************************************************************************)
WidthAt(s, i, w, zeroMeanIsNaN) ==
    LET cnt == Cardinality(Observed(s, i, w))
        lo  == Max2(1, i - w + 1)
        S   == SumRange(s, lo, i)
        Q   == SumSqRange(s, lo, i)
    IN  IF cnt < w THEN NaN                          \* min_periods = window
        ELSE IF S = 0
             THEN (IF zeroMeanIsNaN \/ cnt * Q - S * S = 0
                   THEN NaN                          \* x/NaN, or 0/0
                   ELSE [k |-> "inf", n |-> 1, d |-> 1])
        ELSE Rat(cnt * Q - S * S, S * S)

\* lines 84-88: (upper - lower) / mid.replace(0, np.nan)
bb_width(close, bb_n) ==
    Series([i \in 1..Len(close) |-> WidthAt(close, i, bb_n, TRUE)])

(***************************************************************************)
(* True range and ATR, pattern_filters.py lines 99-103                      *)
(***************************************************************************)
\* pd.concat([...], axis=1).max(axis=1): the row maximum skips NaN
true_range(high, low, close) ==
    LET pc == shift1(close)
        a  == AbsDiff(high, low)
        b  == AbsDiff(high, pc)
        c  == AbsDiff(low, pc)
    IN  Series([i \in 1..Len(close) |->
            LET have == {x \in {a[i], b[i], c[i]} : IsNum(x)}
            IN  IF have = {} THEN NaN ELSE Num(MaxOf({x.n : x \in have}))])

atr(high, low, close, atr_n) == RollingMean(true_range(high, low, close), atr_n, atr_n)

(***************************************************************************)
(* Percentile rank, pattern_filters.py lines 91-96 and 104                  *)
(***************************************************************************)
\* a variant: ties ranked by their highest position, count(<=)/count
MaxRankPct(s, obs, i) ==
    Rat(Cardinality({j \in obs : RatLe(s[j], s[i])}), Cardinality(obs))

\* s.rank(pct=True).iloc[-1] over the window's observations: pandas ranks ties by
\* the average of their positions, (less + (equal + 1)/2) / count
AverageRankPct(s, obs, i) ==
    LET less  == Cardinality({j \in obs : RatLt(s[j], s[i])})
        equal == Cardinality({j \in obs : RatEq(s[j], s[i])})
    IN  Rat(2 * less + equal + 1, 2 * Cardinality(obs))

\* _pct_rank applied to the window ending at row i
_pct_rank(s, i, w) ==
    IF ~IsNum(s[i]) THEN NaN
    ELSE AverageRankPct(s, Observed(s, i, w), i)

\* s.rolling(w, min_periods=minp).apply(_pct_rank, raw=False)
rolling_pct_rank(s, w, minp) ==
    Series([i \in 1..Len(s) |->
        IF Cardinality(Observed(s, i, w)) >= minp THEN _pct_rank(s, i, w) ELSE NaN])

(***************************************************************************)
(* Bar tables (pandas DataFrame)                                           *)
(*   columns : the column labels, in order (labels are unique)             *)
(*   data    : data[j] is the column of cells under columns[j]             *)
(***************************************************************************)
NRows(frame) == IF frame.data = <<>> THEN 0 ELSE Len(frame.data[1])

\* df[c] for a label c of the frame
Column(frame, c) ==
    frame.data[CHOOSE j \in 1..Len(frame.columns) : frame.columns[j] = c]

\* a plain string label and a two-level MultiIndex label
Str(s)      == [tuple |-> FALSE, parts |-> <<s>>]
Pair(a, b)  == [tuple |-> TRUE,  parts |-> <<a, b>>]

\* the candidate names of each role, lines 67-73
sOpen   == <<"o","p","e","n">>
sHigh   == <<"h","i","g","h">>
sLow    == <<"l","o","w">>
sClose  == <<"c","l","o","s","e">>
sAdjClose == <<"a","d","j"," ","c","l","o","s","e">>
sVolume == <<"v","o","l","u","m","e">>
sVol    == <<"v","o","l">>

Candidates(role) ==
    CASE role = "open"   -> <<sOpen, <<"o">>>>
      [] role = "high"   -> <<sHigh, <<"h">>>>
      [] role = "low"    -> <<sLow, <<"l">>>>
      [] role = "close"  -> <<sClose, sAdjClose, <<"c">>>>
      [] role = "volume" -> <<sVolume, sVol, <<"v">>>>

Required == {"open", "high", "low", "close"}
Roles    == Required \cup {"volume"}

(***************************************************************************)
(* backtest/pattern_filters.py : _last_valid, pattern_gate                 *)
(***************************************************************************)
\* a variant of _last_valid: the value at the last row, None when it is NaN there
lastRowValue(x) ==
    IF Len(x) > 0 /\ IsNum(x[Len(x)]) THEN x[Len(x)] ELSE None

\* lines 45-52: x.dropna().iloc[-1]; the IndexError of an empty series gives None
_last_valid(x) ==
    LET obs == {i \in 1..Len(x) : IsNum(x[i])}
    IN  IF obs = {} THEN None ELSE x[MaxOf(obs)]

\* a variant of the row check: one row fewer is required
rowsShortByOne(n, bb_n, atr_n) == n < Max2(bb_n, atr_n) + 1

\* line 63: len(df) < max(bb_n, atr_n) + 2
insufficient_rows(n, bb_n, atr_n) == n < Max2(bb_n, atr_n) + 2

HH20_N == 20
HH50_N == 50

\* a variant of the breakout level: the window holds the current bar's own high
hhUnshifted(high, N) == RollingMax(high, N, N)

\* lines 107-108: high.shift(1).rolling(N, min_periods=N).max()
hh(high, N) == RollingMax(shift1(high), N, N)

\* lines 109-110: close > hhN, False where either side is NaN
breakout(close, level) ==
    Series([i \in 1..Len(close) |-> FloatGt(close[i], level[i])])

\* lines 120-121: a boolean series has nothing to drop, its last row is taken
last_flag(flags) == IF Len(flags) > 0 THEN flags[Len(flags)] ELSE FALSE

BB_PCTILE_MAX  == Rat(1, 10)
ATR_PCTILE_MAX == Rat(1, 5)

\* line 118
is_squeeze(last_bb_p, last_atr_p) ==
    \/ (last_bb_p # None /\ FloatLe(last_bb_p, BB_PCTILE_MAX))
    \/ (last_atr_p # None /\ FloatLe(last_atr_p, ATR_PCTILE_MAX))

\* a variant of the decision: a breakout alone is enough
candidateLoose(squeeze, bo20, bo50) == squeeze \/ (bo20 \/ bo50)

\* line 123
candidate_ok(squeeze, bo20, bo50) == squeeze /\ (bo20 \/ bo50)

\* a variant of the volume lookup: not wrapped in try/except
volumeRequired(columns) == _col(columns, Candidates("volume"))

\* lines 72-77: the volume column is optional
volume_lookup(columns) ==
    LET r == _col(columns, Candidates("volume"))
    IN  IF r.raised = "none" THEN r ELSE Returned(None)

\* lines 79-138, once the columns are resolved
gate_metrics(frame, a, h, l, c, has_volume) ==
    LET close == to_numeric(Column(frame, c))
        high  == to_numeric(Column(frame, h))
        low   == to_numeric(Column(frame, l))
        bbw   == bb_width(close, a.bb_n)
        bbp   == rolling_pct_rank(bbw, a.pct_window, Min2(a.bb_n * 3, a.pct_window))
        atrs  == atr(high, low, close, a.atr_n)
        atrp  == rolling_pct_rank(atrs, a.pct_window, Min2(a.atr_n * 3, a.pct_window))
        bo20  == last_flag(breakout(close, hh(high, HH20_N)))
        bo50  == last_flag(breakout(close, hh(high, HH50_N)))
        last_bb_p  == _last_valid(bbp)
        last_atr_p == _last_valid(atrp)
        squeeze    == is_squeeze(last_bb_p, last_atr_p)
    IN  [ok              |-> TRUE,
         is_squeeze      |-> squeeze,
         bb_width        |-> _last_valid(bbw),
         bb_width_pctile |-> last_bb_p,
         atr             |-> _last_valid(atrs),
         atr_pctile      |-> last_atr_p,
         breakout_hh20   |-> bo20,
         breakout_hh50   |-> bo50,
         candidate_ok    |-> candidate_ok(squeeze, bo20, bo50),
         rows            |-> NRows(frame),
         has_volume      |-> has_volume]

\* a variant of the gate: the columns are resolved before the rows are counted
gateResolveFirst(frame, a) ==
    LET o == _col(frame.columns, Candidates("open"))
        h == _col(frame.columns, Candidates("high"))
        l == _col(frame.columns, Candidates("low"))
        c == _col(frame.columns, Candidates("close"))
        v == volume_lookup(frame.columns)
    IN  IF o.raised # "none" \/ h.raised # "none" \/ l.raised # "none"
           \/ c.raised # "none" \/ v.raised # "none"
        THEN Raised("KeyError")
        ELSE IF insufficient_rows(NRows(frame), a.bb_n, a.atr_n)
        THEN Returned([ok |-> FALSE, reason |-> "insufficient_rows", rows |-> NRows(frame)])
        ELSE Returned(gate_metrics(frame, a, h.value, l.value, c.value, v.value # None))

\* lines 54-138
pattern_gate(frame, a) ==
    IF insufficient_rows(NRows(frame), a.bb_n, a.atr_n)
    THEN Returned([ok |-> FALSE, reason |-> "insufficient_rows", rows |-> NRows(frame)])
    ELSE LET o == _col(frame.columns, Candidates("open"))
             h == _col(frame.columns, Candidates("high"))
             l == _col(frame.columns, Candidates("low"))
             c == _col(frame.columns, Candidates("close"))
             v == volume_lookup(frame.columns)
         IN  IF o.raised # "none" \/ h.raised # "none" \/ l.raised # "none"
                \/ c.raised # "none" \/ v.raised # "none"
             THEN Raised("KeyError")
             ELSE Returned(gate_metrics(frame, a, h.value, l.value, c.value,
                                        v.value # None))

(***************************************************************************)
(* backtest/pattern_gate.py : the compact-signals gate                     *)
(***************************************************************************)
\* the names bound at module level by lines 1-16 and the defs of lines 6-55
ModuleGlobals ==
    [os |-> "module", np |-> "module", pd |-> "module", annotations |-> "feature",
     _env_float |-> "function", _true_range |-> "function", _atr |-> "function",
     _bb_width |-> "function", _bull_engulfing |-> "function", _hammer |-> "function",
     pattern_gate |-> "function",
     BBW_PCTL |-> Rat(15, 1), TIGHTRANGE_PCT |-> Rat(6, 100),
     ATR_RATIO_MAX |-> Rat(65, 100), HH_N |-> 20]

TAIL_ROWS == 160

\* lines 57-58: cols = {c.lower(): c ...}; cols.get(k, k).  A later column wins.
compact_label(columns, name) ==
    LET hits == {j \in 1..Len(columns) : lower(columns[j].parts[1]) = name}
    IN  IF hits = {} THEN Str(name) ELSE columns[MaxOf(hits)]

\* line 59 and x[name]: after the rename, the column called name
compact_has(columns, name) ==
    \/ \E j \in 1..Len(columns) : columns[j] = compact_label(columns, name)
    \/ \E j \in 1..Len(columns) : columns[j] = Str(name)

\* line 63: x.loc[:now_idx].tail(160) with now_idx the last index
compact_rows(s) ==
    IF Len(s) <= TAIL_ROWS THEN s ELSE SubSeq(s, Len(s) - TAIL_ROWS + 1, Len(s))

compact_column(frame, name) ==
    compact_rows(Column(frame,
        IF \E j \in 1..Len(frame.columns) : frame.columns[j] = compact_label(frame.columns, name)
        THEN compact_label(frame.columns, name) ELSE Str(name)))

\* lines 26-27
_atr(high, low, close, n) == RollingMean(true_range(high, low, close), n, n)

\* lines 29-34: the mean is not replaced, a zero mean divides
_bb_width(close, n) ==
    Series([i \in 1..Len(close) |-> WidthAt(close, i, n, FALSE)])

\* lines 36-43 at row i
_bull_engulfing(open, close, i) ==
    /\ i >= 2
    /\ IsNum(open[i]) /\ IsNum(close[i])
    /\ IsNum(open[i - 1]) /\ IsNum(close[i - 1])
    /\ close[i - 1].n < open[i - 1].n
    /\ close[i].n > open[i].n
    /\ close[i].n >= Max2(open[i - 1].n, close[i - 1].n)
    /\ open[i].n <= Min2(open[i - 1].n, close[i - 1].n)

\* lines 45-53 at row i, body_ratio 0.35 and lower_shadow_ratio 2.0
_hammer(open, high, low, close, i) ==
    /\ IsNum(open[i]) /\ IsNum(close[i]) /\ IsNum(high[i]) /\ IsNum(low[i])
    /\ LET body  == AbsInt(close[i].n - open[i].n)
           rng   == high[i].n - low[i].n
           lowsh == AbsInt(Min2(open[i].n, close[i].n) - low[i].n)
           upsh  == AbsInt(high[i].n - Max2(open[i].n, close[i].n))
       IN  /\ rng # 0
           /\ IF rng > 0 THEN 100 * body <= 35 * rng ELSE 100 * body >= 35 * rng
           /\ body # 0
           /\ lowsh >= 2 * body
           /\ upsh <= body

\* lines 65-77 at the last row of x
compact_signals(open, high, low, close) ==
    LET i      == Len(close)
        N      == ModuleGlobals.HH_N
        atr14  == _atr(high, low, close, 14)[i]
        atr100 == _atr(high, low, close, 100)[i]
        bbw    == _bb_width(close, 20)
        bbwpct == IF IsNum(bbw[i])
                  THEN AverageRankPct(bbw, {j \in 1..i : IsNum(bbw[j])}, i) ELSE NaN
        hi     == RollingMax(high, N, N)[i]
        lo     == RollingMin(low, N, N)[i]
        tight_range  == /\ IsNum(hi) /\ IsNum(lo) /\ IsNum(close[i]) /\ close[i].n > 0
                        /\ (hi.n - lo.n) * ModuleGlobals.TIGHTRANGE_PCT.d
                             <= ModuleGlobals.TIGHTRANGE_PCT.n * close[i].n
        low_bbw      == /\ IsNum(bbwpct)
                        /\ RatLe(Rat(100 * bbwpct.n, bbwpct.d), ModuleGlobals.BBW_PCTL)
        atr_compress == /\ IsNum(atr14) /\ IsNum(atr100) /\ atr100.n # 0
                        /\ atr14.n * atr100.d * ModuleGlobals.ATR_RATIO_MAX.d
                             <= ModuleGlobals.ATR_RATIO_MAX.n * atr100.n * atr14.d
    IN  [consolidating |-> (tight_range /\ low_bbw) \/ (low_bbw /\ atr_compress),
         breakout      |-> FloatGt(close[i], shift1(RollingMax(close, N, N))[i]),
         bullish       |-> _bull_engulfing(open, close, i)
                           \/ _hammer(open, high, low, close, i)]

HasText(s) == \E i \in 1..Len(s) : s[i].k = "text"

\* lines 55-83.  The exceptions, in the order the statements meet them:
\*   57  c.lower() on a tuple label               AttributeError
\*   62  x.index[-1] on an empty table            IndexError
\*   19-23, 39-48  x['close'] ... of a missing column    KeyError
\*   21-23, 39-48  arithmetic on a non-numeric cell      TypeError
\*   79  GATE_FORCE_FALSE is bound nowhere         NameError
compact_pattern_gate(frame) ==
    IF \E j \in 1..Len(frame.columns) : frame.columns[j].tuple
    THEN Raised("AttributeError")
    ELSE IF NRows(frame) = 0 THEN Raised("IndexError")
    ELSE IF \E name \in {sClose, sHigh, sLow} : ~compact_has(frame.columns, name)
    THEN Raised("KeyError")
    ELSE IF \E name \in {sClose, sHigh, sLow} : HasText(compact_column(frame, name))
    THEN Raised("TypeError")
    ELSE IF ~compact_has(frame.columns, sOpen) THEN Raised("KeyError")
    ELSE IF HasText(compact_column(frame, sOpen)) THEN Raised("TypeError")
    ELSE IF "GATE_FORCE_FALSE" \notin DOMAIN ModuleGlobals THEN Raised("NameError")
    ELSE LET s == compact_signals(compact_column(frame, sOpen),
                                  compact_column(frame, sHigh),
                                  compact_column(frame, sLow),
                                  compact_column(frame, sClose))
         IN  Returned([ok |-> IF ModuleGlobals.GATE_FORCE_FALSE THEN FALSE
                              ELSE s.consolidating /\ s.breakout /\ s.bullish,
                       signals |-> s])

(***************************************************************************)
(* src/patterns/candlesticks.py : bullish_on_bar, the flag of row i         *)
(* (row 1 is the first bar).  A comparison with a NaN operand is False.     *)
(* Prices are whole numbers of ticks; unit is the number of ticks in 1.0,   *)
(* the range line 68 puts in the place of a zero high - low.                *)
(***************************************************************************)
bullish_flag(open, high, low, close, i, unit) ==
    IF i = 1 THEN FALSE                                        \* lines 47-49
    ELSE
    LET o == open[i]  c == close[i]  h == high[i]  l == low[i]
        op == open[i - 1]  cp == close[i - 1]
        up == FloatGt(c, o)                                    \* close_cur > open_cur
        engulfing ==                                           \* lines 57-62
            /\ up /\ FloatGt(op, cp)
            /\ FloatLe(op, c) /\ FloatLe(o, cp)
        hammer ==                                              \* lines 64-66
            /\ up /\ IsNum(l)
            /\ Min2(o.n, c.n) - l.n >= 2 * AbsInt(c.n - o.n)
        marubozu ==                                            \* lines 68-73
            /\ up /\ IsNum(h) /\ IsNum(l)
            /\ LET candle_range == IF h.n - l.n # 0 THEN h.n - l.n ELSE unit
               IN  /\ 10 * AbsInt(o.n - l.n) <= candle_range
                   /\ 10 * AbsInt(c.n - h.n) <= candle_range
        morning_star ==                                        \* lines 75-88
            /\ i >= 3
            /\ LET o2 == open[i - 2]  c2 == close[i - 2]
               IN  /\ FloatGt(o2, c2)
                   /\ IsNum(op) /\ IsNum(cp)
                   /\ 2 * AbsInt(cp.n - op.n) <= AbsInt(c2.n - o2.n)
                   /\ up
                   /\ FloatLe(o2, c)
    IN  engulfing \/ hammer \/ marubozu \/ morning_star

\* the flag of row i of a table priced in whole units
bullish_at(open, high, low, close, i) == bullish_flag(open, high, low, close, i, 1)

(***************************************************************************)
(* The bar tables the gate is called on.                                   *)
(* A table is a schema (labels, each over the bar field its vendor put     *)
(* there) filled with a bar history: a first bar, a run of regular bars    *)
(* and the most recent bars.                                               *)
(***************************************************************************)
Bar(o, h, l, c) == [o |-> Num(o), h |-> Num(h), l |-> Num(l), c |-> Num(c), v |-> Num(100)]

\* the first bar and the regular bars of a history
Shapes == {<<"base", "flat">>, <<"spike", "flat">>, <<"base", "zigzag">>}
TailKinds == {"tight", "breakout", "bearBreakout", "spike", "gapHL", "tightGapC"}

\* a regular bar: wide range 5..15, close 10 (flat) or alternating 10/12 (zigzag)
RegularBar(pat, i) ==
    IF pat = "zigzag" /\ i % 2 = 0 THEN Bar(10, 15, 5, 12) ELSE Bar(10, 15, 5, 10)

KindBar(kind) ==
    CASE kind = "base"      -> Bar(10, 15, 5, 10)
      [] kind = "tight"     -> Bar(10, 11, 10, 11)
      [] kind = "breakout"  -> Bar(15, 16, 15, 16)
      [] kind = "bearBreakout" -> Bar(17, 17, 16, 16)
      [] kind = "spike"     -> Bar(10, 17, 5, 10)
      [] kind = "gapHL"     -> [Bar(15, 0, 0, 16) EXCEPT !.h = NaN, !.l = NaN]
      [] kind = "tightGapC" -> [Bar(10, 11, 10, 0) EXCEPT !.c = Text]

\* how many rows beyond each row-count threshold the histories go
ExtraRows == 1
\* 3 rows are too few for every argument set, 21 for the default one; row 21 is the
\* first with 20 prior bars and row 51 the first with 50
RowCounts == {t + e : t \in {3, HH20_N + 1, HH50_N}, e \in 0..ExtraRows}

\* the two most recent bars vary
Tails == {<<a, b>> : a \in TailKinds, b \in TailKinds}

History(n, head, pat, tail) ==
    [i \in 1..n |->
        IF i > n - Len(tail) THEN KindBar(tail[i - (n - Len(tail))])
        ELSE IF i = 1 THEN KindBar(head)
        ELSE RegularBar(pat, i)]

Histories ==
    {History(n, shape[1], shape[2], tail) :
        n \in RowCounts, shape \in Shapes, tail \in Tails}

\* label spellings
UpperChar(ch) ==
    IF \E i \in 1..26 : LowerCase[i] = ch
    THEN UpperCase[CHOOSE i \in 1..26 : LowerCase[i] = ch]
    ELSE ch
upper(s) == [i \in 1..Len(s) |-> UpperChar(s[i])]
Cap(s)   == [i \in 1..Len(s) |-> IF i = 1 THEN UpperChar(s[i]) ELSE s[i]]
Ticker   == <<"T">>
Field(role) ==
    CASE role = "o" -> sOpen [] role = "h" -> sHigh [] role = "l" -> sLow
      [] role = "c" -> sClose [] role = "v" -> sVolume

OHLCV == <<"o", "h", "l", "c", "v">>
OHLC  == <<"o", "h", "l", "c">>
BarFields == {"o", "h", "l", "c", "v"}

\* a schema: each column's label and the bar field stored under it
SchemaOf(roles, label) ==
    [j \in 1..Len(roles) |-> [label |-> label[roles[j]], role |-> roles[j]]]

PlainSchema == SchemaOf(OHLCV, [r \in BarFields |-> Str(Field(r))])

Schemas ==
    { PlainSchema,
      SchemaOf(OHLC,  [r \in BarFields |-> Str(Field(r))]),
      SchemaOf(OHLCV, [r \in BarFields |-> Str(Cap(Field(r)))]),
      SchemaOf(OHLCV, [r \in BarFields |-> Str(upper(Field(r)))]),
      SchemaOf(OHLCV, [r \in BarFields |-> Str(<<" ">> \o Cap(Field(r)) \o <<" ">>)]),
      SchemaOf(OHLCV, [r \in BarFields |-> Str(<<Field(r)[1]>>)]),
      SchemaOf(OHLCV, [r \in BarFields |-> Str(IF r = "c" THEN <<"A","d","j"," ","C","l","o","s","e">>
                                     ELSE Cap(Field(r)))]),
      SchemaOf(OHLCV, [r \in BarFields |-> Str(IF r = "c" THEN <<"a","d","j","_","c","l","o","s","e">>
                                     ELSE Field(r))]),
      Append(SchemaOf(OHLCV, [r \in BarFields |-> Str(Cap(Field(r)))]),
             [label |-> Str(<<"A","d","j"," ","C","l","o","s","e">>), role |-> "c"]),
      SchemaOf(<<"o", "h", "l", "v">>, [r \in BarFields |-> Str(Field(r))]),
      SchemaOf(<<"o", "l", "c", "v">>, [r \in BarFields |-> Str(Field(r))]),
      SchemaOf(<<"h", "l", "c", "v">>, [r \in BarFields |-> Str(Field(r))]),
      SchemaOf(<<"o", "h", "c", "v">>, [r \in BarFields |-> Str(Field(r))]),
      SchemaOf(<<"h", "l", "c">>, [r \in BarFields |-> Str(Field(r))]),
      SchemaOf(<<"c", "l", "h", "o", "v">>, [r \in BarFields |-> Str(Field(r))]),
      <<[label |-> Str(<<"A","d","j"," ","C","l","o","s","e">>), role |-> "c"]>>
          \o SchemaOf(OHLCV, [r \in BarFields |-> Str(Cap(Field(r)))]),
      SchemaOf(OHLCV, [r \in BarFields |-> Pair(Cap(Field(r)), Ticker)]),
      SchemaOf(OHLCV, [r \in BarFields |-> Pair(Ticker, Cap(Field(r)))]),
      SchemaOf(OHLC,  [r \in BarFields |-> Pair(Cap(Field(r)), Ticker)]),
      SchemaOf(OHLC,  [r \in BarFields |-> Pair(Ticker, Cap(Field(r)))]),
      SchemaOf(OHLCV, [r \in BarFields |-> Pair(Cap(Field(r)), <<>>)]),
      Append(SchemaOf(OHLC, [r \in BarFields |-> Pair(Cap(Field(r)), <<>>)]),
             [label |-> Pair(<<>>, <<" ">>), role |-> "v"]) }

Frame(schema, bars) ==
    [columns |-> [j \in 1..Len(schema) |-> schema[j].label],
     data    |-> [j \in 1..Len(schema) |->
                     [i \in 1..Len(bars) |-> bars[i][schema[j].role]]]]

\* the histories the schemas are tried on
SchemaHistories ==
    {History(n, "base", "flat", tail) :
        n \in {3, 22}, tail \in {<<"tight", "breakout">>, <<"tightGapC", "gapHL">>}}

SchemaTables == {Frame(schema, bars) : schema \in Schemas, bars \in SchemaHistories}

Tables ==
    {Frame(PlainSchema, bars) : bars \in Histories}
    \cup SchemaTables
    \cup {Frame(PlainSchema, <<>>)}

\* the keyword arguments of pattern_gate: the defaults of line 54 and two short sets
ArgSets ==
    { [bb_n |-> 20, bb_k |-> 2, atr_n |-> 14, pct_window |-> 252],
      [bb_n |-> 2,  bb_k |-> 2, atr_n |-> 2,  pct_window |-> 5],
      [bb_n |-> 2,  bb_k |-> 2, atr_n |-> 2,  pct_window |-> 10] }

(***************************************************************************)
(* The calls                                                               *)
(***************************************************************************)
Idle == [fn |-> "none", role |-> "none"]
NoValue == [raised |-> "none", value |-> <<>>]

Init ==
    /\ df \in Tables
    /\ args \in ArgSets
    /\ call = Idle
    /\ ret = NoValue

\* out = pattern_gate(df, ...) of backtest/pattern_filters.py
CallPatternGate ==
    /\ call = Idle
    /\ call' = [fn |-> "pattern_filters.pattern_gate", role |-> "none"]
    /\ ret' = pattern_gate(df, args)
    /\ UNCHANGED <<df, args>>

\* pattern_gate(df) of backtest/pattern_gate.py
CallCompactGate ==
    /\ call = Idle
    /\ call' = [fn |-> "pattern_gate.pattern_gate", role |-> "none"]
    /\ ret' = compact_pattern_gate(df)
    /\ UNCHANGED <<df, args>>

\* _col(df, candidates) for one role
CallCol(role) ==
    /\ call = Idle
    /\ call' = [fn |-> "_col", role |-> role]
    /\ ret' = _col(df.columns, Candidates(role))
    /\ UNCHANGED <<df, args>>

\* the caller has read the result
Done ==
    /\ call # Idle
    /\ call' = Idle
    /\ ret' = NoValue
    /\ UNCHANGED <<df, args>>

Next ==
    \/ CallPatternGate
    \/ CallCompactGate
    \/ Done

Spec == Init /\ [][Next]_vars

\* the Column Resolver alone, on every schema
InitCol ==
    /\ df \in SchemaTables
    /\ args \in ArgSets
    /\ call = Idle
    /\ ret = NoValue

NextCol ==
    \/ \E role \in Roles : CallCol(role)
    \/ Done

SpecCol == InitCol /\ [][NextCol]_vars

(***************************************************************************)
(* What the claims speak of                                                *)
(***************************************************************************)
StrictCalled  == call.fn = "pattern_filters.pattern_gate"
CompactCalled == call.fn = "pattern_gate.pattern_gate"
ColCalled     == call.fn = "_col"

\* max(bb_n, atr_n) + 2
MinRows == Max2(args.bb_n, args.atr_n) + 2

\* the call returned the full metrics record
GotMetrics == StrictCalled /\ ret.raised = "none" /\ ret.value.ok
\* the call returned {ok: False, reason: "insufficient_rows", rows}
GotInsufficient ==
    /\ StrictCalled /\ ret.raised = "none" /\ ~ret.value.ok
    /\ "reason" \in DOMAIN ret.value
    /\ ret.value.reason = "insufficient_rows"

Resolves(role) == _col(df.columns, Candidates(role)).raised = "none"
AllRequiredResolve == \A role \in Required : Resolves(role)
\* the roles among open, high, low, close that do not resolve
Unresolved == {role \in Required : ~Resolves(role)}

\* the numeric series of the column a role resolves to
RoleSeries(role) == to_numeric(Column(df, _col(df.columns, Candidates(role)).value))

HasTextCell == \E j \in 1..Len(df.data) : HasText(df.data[j])

\* C1: a table with fewer than max(bb_n, atr_n) + 2 rows gets ok = false with reason
\* "insufficient_rows" and no exception; a table with at least that many rows never
\* gets the reason "insufficient_rows".
Thm_C1 ==
    StrictCalled =>
        IF NRows(df) < MinRows THEN GotInsufficient ELSE ~GotInsufficient

\* a table one row short of the minimum, under the default arguments, was refused
Wit_C1 ==
    /\ GotInsufficient
    /\ args.bb_n = 20
    /\ NRows(df) = MinRows - 1
    /\ ret.value.rows = NRows(df)

\* C2: when open, high, low and close resolve, the strict gate returns a record and
\* raises nothing, whatever the row count, the missing or non-numeric cells and the
\* presence of a volume column.
Thm_C2 == (StrictCalled /\ AllRequiredResolve) => ret.raised = "none"

\* a long enough table without a volume column and with non-numeric cells went through
Wit_C2 ==
    /\ GotMetrics
    /\ ~ret.value.has_volume
    /\ HasTextCell
    /\ AllRequiredResolve /\ ~Resolves("volume")

\* the table has plain open, high, low and close columns, numeric cells and 22 rows or more
PlainNumericOHLC ==
    /\ \A name \in {sOpen, sHigh, sLow, sClose} :
          \E j \in 1..Len(df.columns) :
              ~df.columns[j].tuple /\ lower(df.columns[j].parts[1]) = name
    /\ ~HasTextCell
    /\ NRows(df) >= 22

\* C3: on a table with open, high, low and close columns the compact-signals gate
\* returns {ok, signals: {consolidating, breakout, bullish}} with ok true exactly when
\* the three signals are true, and raises nothing.
Cex_C3 ==
    (CompactCalled /\ PlainNumericOHLC) =>
        /\ ret.raised = "none"
        /\ ret.value.ok = (/\ ret.value.signals.consolidating
                           /\ ret.value.signals.breakout
                           /\ ret.value.signals.bullish)

\* C4 (as amended): with at least max(bb_n, atr_n) + 2 rows, an unresolvable required
\* role makes the gate raise the missing-column failure; with fewer rows the gate
\* returns insufficient_rows before any column is resolved; a missing volume column
\* alone never raises and, with enough rows, gives has_volume = false.
Thm_C4 ==
    StrictCalled =>
        LET missing == Unresolved
        IN  /\ (missing # {} /\ NRows(df) >= MinRows) => ret.raised = "KeyError"
            /\ (missing # {} /\ NRows(df) < MinRows) => GotInsufficient
            /\ (missing = {} /\ ~Resolves("volume")) =>
                  /\ ret.raised = "none"
                  /\ NRows(df) >= MinRows => (GotMetrics /\ ~ret.value.has_volume)

\* a long enough table with an unresolvable required role made the gate raise
Wit_C4 ==
    /\ StrictCalled
    /\ ret.raised = "KeyError"
    /\ NRows(df) >= MinRows
    /\ ~AllRequiredResolve

\* C4 as claimed: an unresolvable required role makes the gate raise, whatever the
\* row count.
Cex_C4 == (StrictCalled /\ ~AllRequiredResolve) => ret.raised = "KeyError"

\* every label is a (field, ticker) pair, or every label is a (ticker, field) pair
FieldOf(role) ==
    CASE role = "open" -> sOpen [] role = "high" -> sHigh [] role = "low" -> sLow
      [] role = "close" -> sClose [] role = "volume" -> sVolume
PairLabels(k) ==
    /\ df.columns # <<>>
    /\ \A j \in 1..Len(df.columns) :
          /\ df.columns[j].tuple /\ Len(df.columns[j].parts) = 2
          /\ lower(df.columns[j].parts[3 - k]) = lower(Ticker)
          /\ \E role \in Roles : lower(df.columns[j].parts[k]) = FieldOf(role)

\* C5: with composite labels in either order, each required role resolves to the
\* column whose field component names the role.
Cex_C5 ==
    (ColCalled /\ call.role \in Required /\ (PairLabels(1) \/ PairLabels(2))) =>
        /\ ret.raised = "none"
        /\ \E k \in 1..2 : lower(ret.value.parts[k]) = FieldOf(call.role)

\* the breakout flag as the claim words it, on the resolved close and high series
ClaimedBreakout(N) ==
    LET close == RoleSeries("close")
        high  == RoleSeries("high")
        i     == NRows(df)
    IN  /\ i - N >= 1
        /\ IsNum(close[i])
        /\ \A j \in (i - N)..(i - 1) : IsNum(high[j]) /\ close[i].n > high[j].n

\* C6: breakout_hh20 / breakout_hh50 at the last bar i are true iff at least N prior
\* bars exist and close[i] is strictly above every high of bars i-N .. i-1.
Thm_C6 ==
    GotMetrics =>
        /\ ret.value.breakout_hh20 = ClaimedBreakout(HH20_N)
        /\ ret.value.breakout_hh50 = ClaimedBreakout(HH50_N)

\* 50 prior bars exist, the close clears the last 20 highs but not the high 50 bars back
Wit_C6 ==
    /\ GotMetrics
    /\ NRows(df) = HH50_N + 1
    /\ ret.value.breakout_hh20
    /\ ~ret.value.breakout_hh50

\* the candlestick predicate at the evaluation bar
BullishAtLastBar ==
    bullish_at(RoleSeries("open"), RoleSeries("high"), RoleSeries("low"),
               RoleSeries("close"), NRows(df))

\* C7 (as amended): candidate_ok is true iff is_squeeze and (breakout_hh20 or
\* breakout_hh50); the bullish-candle predicate takes no part in it.
Thm_C7 ==
    GotMetrics =>
        ret.value.candidate_ok =
            (ret.value.is_squeeze /\ (ret.value.breakout_hh20 \/ ret.value.breakout_hh50))

\* a candidate on a bar that shows no bullish candle
Wit_C7 ==
    /\ GotMetrics
    /\ ret.value.candidate_ok
    /\ ~HasTextCell
    /\ ~BullishAtLastBar

\* C7 as claimed: candidate_ok iff squeeze, a breakout and a bullish candle.
Cex_C7 ==
    GotMetrics =>
        ret.value.candidate_ok =
            (/\ ret.value.is_squeeze
             /\ (ret.value.breakout_hh20 \/ ret.value.breakout_hh50)
             /\ BullishAtLastBar)

\* the series the strict gate builds from the table, lines 79-104
MetricSeries ==
    LET close == RoleSeries("close")
        high  == RoleSeries("high")
        low   == RoleSeries("low")
        bbw   == bb_width(close, args.bb_n)
        atrs  == atr(high, low, close, args.atr_n)
    IN  [bb_width        |-> bbw,
         bb_width_pctile |-> rolling_pct_rank(bbw, args.pct_window,
                                              Min2(3 * args.bb_n, args.pct_window)),
         atr             |-> atrs,
         atr_pctile      |-> rolling_pct_rank(atrs, args.pct_window,
                                              Min2(3 * args.atr_n, args.pct_window))]

Metrics == {"bb_width", "bb_width_pctile", "atr", "atr_pctile"}

\* the value of a series at its most recent defined row, None when it has none
MostRecentDefined(s) ==
    IF \A i \in 1..Len(s) : ~IsNum(s[i]) THEN None
    ELSE s[CHOOSE i \in 1..Len(s) :
               IsNum(s[i]) /\ \A j \in (i + 1)..Len(s) : ~IsNum(s[j])]

\* C8 (as amended): each reported metric is the series' most recent defined value
\* (the value at the last bar when it is defined there, else the one carried over
\* from the latest earlier bar where it is defined) and is None only when the series
\* is undefined at every bar; a comparison on a None percentile is false, so
\* is_squeeze and candidate_ok are false when both percentiles are undefined at
\* every bar.
Thm_C8 ==
    GotMetrics =>
        LET s == MetricSeries
        IN  /\ \A m \in Metrics : ret.value[m] = MostRecentDefined(s[m])
            /\ ( /\ \A i \in 1..NRows(df) : ~IsNum(s.bb_width_pctile[i])
                 /\ \A i \in 1..NRows(df) : ~IsNum(s.atr_pctile[i]) )
               => (~ret.value.is_squeeze /\ ~ret.value.candidate_ok)

\* the ATR percentile is undefined at the last bar and the reported one is carried over
Wit_C8 ==
    /\ GotMetrics
    /\ ret.value.atr_pctile # None
    /\ ~IsNum(MetricSeries.atr_pctile[NRows(df)])

\* C8 as claimed: is_squeeze is false whenever both percentiles are undefined at the
\* last bar, and the reported metrics are the values at the last bar.
Cex_C8 ==
    GotMetrics =>
        LET s == MetricSeries
            n == NRows(df)
        IN  /\ (~IsNum(s.bb_width_pctile[n]) /\ ~IsNum(s.atr_pctile[n]))
                  => ~ret.value.is_squeeze
            /\ \A m \in Metrics :
                  ret.value[m] = (IF IsNum(s[m][n]) THEN s[m][n] ELSE None)

\* the observations of the trailing window of s ending at row i
WindowObs(s, i) ==
    {j \in 1..i : j > i - args.pct_window /\ IsNum(s[j])}

\* the rank as amended: at every row i the percentile rank of a metric is defined iff the
\* metric is defined at i and its window holds at least min(3*period, pct_window)
\* defined values; it then equals (number below the value + (number equal to it, itself
\* included, + 1)/2) / (number of defined values), which is the fraction of values
\* <= it when no other value of the window ties with it, and lies in (0, 1].
RankAsAmended(s, p, period) ==
    \A i \in 1..Len(s) :
        LET obs   == WindowObs(s, i)
            cnt   == Cardinality(obs)
            below == Cardinality({j \in obs : s[j].n * s[i].d < s[i].n * s[j].d})
            same  == Cardinality({j \in obs : s[j].n * s[i].d = s[i].n * s[j].d})
        IN  /\ IsNum(p[i]) <=> (IsNum(s[i]) /\ cnt >= Min2(3 * period, args.pct_window))
            /\ IsNum(p[i]) =>
                  /\ 2 * cnt * p[i].n = (2 * below + same + 1) * p[i].d
                  /\ same = 1 => cnt * p[i].n = (below + 1) * p[i].d
                  /\ 0 < p[i].n /\ p[i].n <= p[i].d

\* C9 (as amended): the percentile rank of bb_width and of atr is defined iff the
\* metric is defined at the row and its window holds at least min(3*period,
\* pct_window) defined values, and is then the average rank of the value among the
\* window's defined values divided by their number, within (0, 1].
Thm_C9 ==
    GotMetrics =>
        LET s == MetricSeries
        IN  /\ RankAsAmended(s.bb_width, s.bb_width_pctile, args.bb_n)
            /\ RankAsAmended(s.atr, s.atr_pctile, args.atr_n)

\* a defined ATR rank taken over a window in which another value ties with the ranked one
Wit_C9 ==
    /\ GotMetrics
    /\ LET s == MetricSeries
       IN  \E i \in 1..NRows(df) :
              /\ IsNum(s.atr_pctile[i])
              /\ \E j \in WindowObs(s.atr, i) : j # i /\ RatEq(s.atr[j], s.atr[i])

\* the rank as claimed: the fraction of the window's defined values that are
\* <= the value at i, ties included.
RankAsClaimed(s, p) ==
    \A i \in 1..Len(s) :
        IsNum(p[i]) =>
            LET obs == WindowObs(s, i)
                le  == Cardinality({j \in obs : s[j].n * s[i].d <= s[i].n * s[j].d})
            IN  Cardinality(obs) * p[i].n = le * p[i].d

\* C9 as claimed: the percentile rank is count(<= value)/count(defined) over the
\* window, ties included.
Cex_C9 ==
    GotMetrics =>
        LET s == MetricSeries
        IN  /\ RankAsClaimed(s.bb_width, s.bb_width_pctile)
            /\ RankAsClaimed(s.atr, s.atr_pctile)

(***************************************************************************)
(* src/patterns/candlesticks.py : bullish_on_bar on a whole table           *)
(***************************************************************************)
\* the candle tables are priced in tenths: ten ticks make 1.0
Tick == Rat(1, 10)

sCapOpen  == Cap(sOpen)
sCapHigh  == Cap(sHigh)
sCapLow   == Cap(sLow)
sCapClose == Cap(sClose)

\* df.iloc[i]['Open'] finds the label 'Open' and no other spelling
has_label(frame, name) == \E j \in 1..Len(frame.columns) : frame.columns[j] = Str(name)

\* lines 50-55 and 77-80: a table of two rows or more is read under its four labels
missing_candle_column(frame) ==
    /\ NRows(frame) >= 2
    /\ \E name \in {sCapOpen, sCapHigh, sCapLow, sCapClose} : ~has_label(frame, name)

\* lines 46-89: the list results, one flag per row
candle_results(open, high, low, close, unit) ==
    [i \in 1..Len(close) |-> bullish_flag(open, high, low, close, i, unit)]

\* a variant: a zero range is replaced by one tick, not by 1.0
bullishOnBarTickRange(frame) ==
    IF missing_candle_column(frame) THEN Raised("KeyError")
    ELSE IF NRows(frame) <= 1 THEN Returned([i \in 1..NRows(frame) |-> FALSE])
    ELSE Returned(candle_results(Column(frame, Str(sCapOpen)), Column(frame, Str(sCapHigh)),
                                 Column(frame, Str(sCapLow)), Column(frame, Str(sCapClose)), 1))

\* a variant: the flag of a row is computed on the row after it
bullishOnBarLookahead(frame) ==
    IF missing_candle_column(frame) THEN Raised("KeyError")
    ELSE IF NRows(frame) <= 1 THEN Returned([i \in 1..NRows(frame) |-> FALSE])
    ELSE LET r == candle_results(Column(frame, Str(sCapOpen)), Column(frame, Str(sCapHigh)),
                                 Column(frame, Str(sCapLow)), Column(frame, Str(sCapClose)),
                                 Tick.d)
         IN  Returned([i \in 1..NRows(frame) |-> IF i < NRows(frame) THEN r[i + 1] ELSE FALSE])

\* a variant: open and close change places, the bearish shapes are flagged
bullishOnBarMirrored(frame) ==
    IF missing_candle_column(frame) THEN Raised("KeyError")
    ELSE IF NRows(frame) <= 1 THEN Returned([i \in 1..NRows(frame) |-> FALSE])
    ELSE Returned(candle_results(Column(frame, Str(sCapClose)), Column(frame, Str(sCapHigh)),
                                 Column(frame, Str(sCapLow)), Column(frame, Str(sCapOpen)),
                                 Tick.d))

\* lines 45-90: row 0 reads no column; every later row reads the four of them
bullish_on_bar(frame) ==
    IF missing_candle_column(frame) THEN Raised("KeyError")
    ELSE IF NRows(frame) <= 1 THEN Returned([i \in 1..NRows(frame) |-> FALSE])
    ELSE Returned(candle_results(Column(frame, Str(sCapOpen)), Column(frame, Str(sCapHigh)),
                                 Column(frame, Str(sCapLow)), Column(frame, Str(sCapClose)),
                                 Tick.d))

\* the bars of the candle tables, in ticks
CandleKinds == {"bear", "doji", "bull", "hammer", "maru", "gapO", "gapL", "point"}
CandleBar(kind) ==
    CASE kind = "bear"   -> Bar(120, 120, 80, 80)       \* long bearish body
      [] kind = "doji"   -> Bar(90, 92, 88, 90)         \* no body
      [] kind = "bull"   -> Bar(80, 125, 70, 121)       \* long bullish body
      [] kind = "hammer" -> Bar(100, 102, 90, 102)      \* long lower shadow
      [] kind = "maru"   -> Bar(100, 120, 100, 120)     \* opens on the low, closes on the high
      [] kind = "gapO"   -> [Bar(0, 120, 100, 120) EXCEPT !.o = NaN]
      [] kind = "gapL"   -> [Bar(100, 120, 0, 120) EXCEPT !.l = NaN]
      [] kind = "point"  -> Bar(99, 100, 100, 101)      \* high = low, open and close beside it

\* the bars before the last three
HeadKinds == {"bear", "bull"}

MaxBars == 4

CandleHistories ==
    UNION {{[i \in 1..n |-> CandleBar(ks[i])] :
               ks \in {f \in [1..n -> CandleKinds] :
                          \A i \in 1..n : i <= n - 3 => f[i] \in HeadKinds}} :
           n \in 1..MaxBars}

CandleSchema == SchemaOf(OHLC, [r \in BarFields |-> Str(Cap(Field(r)))])
\* vendor tables come capitalised; a lower-case table has no 'Open'
CandleTables ==
    {Frame(CandleSchema, bars) : bars \in CandleHistories}
    \cup {Frame(SchemaOf(OHLC, [r \in BarFields |-> Str(Field(r))]), bars) :
             bars \in {h \in CandleHistories : Len(h) <= 2}}

InitCandle ==
    /\ df \in CandleTables
    /\ args \in {[bb_n |-> 20, bb_k |-> 2, atr_n |-> 14, pct_window |-> 252]}
    /\ call = Idle
    /\ ret = NoValue

\* flags = bullish_on_bar(df)
CallBullishOnBar ==
    /\ call = Idle
    /\ call' = [fn |-> "bullish_on_bar", role |-> "none"]
    /\ ret' = bullish_on_bar(df)
    /\ UNCHANGED <<df, args>>

NextCandle ==
    \/ CallBullishOnBar
    \/ Done

SpecCandle == InitCandle /\ [][NextCandle]_vars

(***************************************************************************)
(* What the candlestick claims speak of                                    *)
(***************************************************************************)
CandleCalled == call.fn = "bullish_on_bar"
\* the table carries the labels 'Open', 'High', 'Low', 'Close'
CandleLabelled ==
    \A name \in {sCapOpen, sCapHigh, sCapLow, sCapClose} : has_label(df, name)
GotFlags     == CandleCalled /\ ret.raised = "none" /\ CandleLabelled

cOpen  == Column(df, Str(sCapOpen))
cHigh  == Column(df, Str(sCapHigh))
cLow   == Column(df, Str(sCapLow))
cClose == Column(df, Str(sCapClose))

\* bar i is bullish / bearish: open and close are defined and close is above / below open
BarBullish(i) == IsNum(cOpen[i]) /\ IsNum(cClose[i]) /\ cClose[i].n > cOpen[i].n
BarBearish(i) == IsNum(cOpen[i]) /\ IsNum(cClose[i]) /\ cClose[i].n < cOpen[i].n
BodyOf(i)     == AbsInt(cClose[i].n - cOpen[i].n)

ClaimedEngulfing(i) ==
    /\ BarBearish(i - 1) /\ BarBullish(i)
    /\ cClose[i].n >= Max2(cOpen[i - 1].n, cClose[i - 1].n)
    /\ cOpen[i].n  <= Min2(cOpen[i - 1].n, cClose[i - 1].n)

ClaimedHammer(i) ==
    /\ BarBullish(i) /\ IsNum(cLow[i])
    /\ Min2(cOpen[i].n, cClose[i].n) - cLow[i].n >= 2 * BodyOf(i)

\* the two distances are at most 10% of range
MarubozuWithin(i, range) ==
    /\ BarBullish(i) /\ IsNum(cHigh[i]) /\ IsNum(cLow[i])
    /\ 10 * AbsInt(cOpen[i].n - cLow[i].n) <= range
    /\ 10 * AbsInt(cClose[i].n - cHigh[i].n) <= range

\* row i is the third bar or later
ClaimedMorningStar(i) ==
    /\ i >= 3
    /\ BarBearish(i - 2)
    /\ IsNum(cOpen[i - 1]) /\ IsNum(cClose[i - 1])
    /\ 2 * BodyOf(i - 1) <= BodyOf(i - 2)
    /\ BarBullish(i)
    /\ cClose[i].n >= cOpen[i - 2].n

\* high - low in ticks, and 1.0 in ticks when high = low
RangeOrOne(i) ==
    IF IsNum(cHigh[i]) /\ IsNum(cLow[i]) /\ cHigh[i].n # cLow[i].n
    THEN cHigh[i].n - cLow[i].n ELSE Tick.d
RangeAsClaimed(i) ==
    IF IsNum(cHigh[i]) /\ IsNum(cLow[i]) THEN cHigh[i].n - cLow[i].n ELSE 0

FlagsAre(Marubozu(_)) ==
    /\ Len(ret.value) = NRows(df)
    /\ \A i \in 1..NRows(df) :
          /\ ret.value[i] \in BOOLEAN
          /\ i = 1 => ret.value[i] = FALSE
          /\ i > 1 => ret.value[i] = (\/ ClaimedEngulfing(i) \/ ClaimedHammer(i)
                                      \/ Marubozu(i) \/ ClaimedMorningStar(i))

MarubozuAmended(i) == MarubozuWithin(i, RangeOrOne(i))
MarubozuClaimed(i) == MarubozuWithin(i, RangeAsClaimed(i))

AltKinds == {"bear", "doji", "bull"}

\* the table df with the rows outside i-2 .. i replaced by the bars alt names
AltTable(i, alt) ==
    [columns |-> df.columns,
     data    |-> [j \in 1..Len(df.columns) |->
                     [r \in 1..NRows(df) |->
                         IF r \in (i - 2)..i THEN df.data[j][r]
                         ELSE CandleBar(alt[r])[OHLC[j]]]]]

\* C12: two bar series of equal length that agree on bars i-2, i-1 and i get the same
\* flag at bar i: no bar after i and no bar before i-2 has a part in it.
Thm_C12 ==
    GotFlags =>
        \A i \in 1..NRows(df) :
            \A alt \in [(1..NRows(df)) \ ((i - 2)..i) -> AltKinds] :
                bullish_on_bar(AltTable(i, alt)).value[i] = ret.value[i]

\* a flagged third bar with a bar after it, which the alternatives replace
Wit_C12 ==
    /\ GotFlags
    /\ NRows(df) >= 4
    /\ ret.value[3]
    /\ \E alt \in [{4} -> AltKinds] : AltTable(3, alt) # df

\* C19: a flagged bar is bullish: its open and close are defined and close > open.
Thm_C19 ==
    GotFlags => \A i \in 1..NRows(df) : ret.value[i] => BarBullish(i)

\* a bearish bar and an indecision bar are followed by a bar whose close is above the
\* first bar's open but whose open is missing: it is not flagged
Wit_C19 ==
    /\ GotFlags
    /\ NRows(df) >= 3
    /\ LET n == NRows(df)
       IN  /\ BarBearish(n - 2)
           /\ IsNum(cOpen[n - 1]) /\ IsNum(cClose[n - 1])
           /\ 2 * BodyOf(n - 1) <= BodyOf(n - 2)
           /\ ~IsNum(cOpen[n]) /\ IsNum(cClose[n])
           /\ cClose[n].n >= cOpen[n - 2].n
           /\ ~ret.value[n]

(***************************************************************************)
(* What the Column Resolver claim speaks of                                *)
(***************************************************************************)
\* the keys of a column label and of a candidate name
ColumnKeys(c)  == {Keys3(_canon(c))[x] : x \in 1..3}
NameKeys(name) == {Keys3(lower(name))[x] : x \in 1..3}

ColumnsOf(frame) == {frame.columns[j] : j \in 1..Len(frame.columns)}

\* the column has a key equal to a key of the name / holding a key of the name
MatchesExactly(c, name) == ColumnKeys(c) \cap NameKeys(name) # {}
MatchesLoosely(c, name) ==
    \E k \in ColumnKeys(c) : \E w \in NameKeys(name) : contains(k, w)

\* the positions of the candidates some column matches exactly
ExactCandidates(role) ==
    {x \in 1..Len(Candidates(role)) :
        \E c \in ColumnsOf(df) : MatchesExactly(c, Candidates(role)[x])}

\* C18: when some candidate key equals some column key, _col returns a column that
\* matches exactly the earliest such candidate; when none does, it returns a column
\* one of whose keys contains a candidate key; it raises the missing-column failure
\* iff no column key equals or contains a candidate key.
Thm_C18 ==
    ColCalled =>
        LET names == Candidates(call.role)
            exact == ExactCandidates(call.role)
            loose == {c \in ColumnsOf(df) :
                         \E x \in 1..Len(names) : MatchesLoosely(c, names[x])}
        IN  /\ exact # {} =>
                  /\ ret.raised = "none"
                  /\ ret.value \in ColumnsOf(df)
                  /\ MatchesExactly(ret.value, names[MinOf(exact)])
            /\ (exact = {} /\ loose # {}) =>
                  /\ ret.raised = "none"
                  /\ ret.value \in loose
            /\ (ret.raised = "KeyError") <=> (exact = {} /\ loose = {})

\* the role has an exact match although an earlier column already contains one of
\* its candidate keys, and a later candidate has an exact match of its own
Wit_C18 ==
    /\ ColCalled /\ call.role = "close"
    /\ ret.raised = "none"
    /\ Cardinality(ExactCandidates("close")) >= 2
    /\ MatchesLoosely(df.columns[1], sClose)
    /\ ~MatchesExactly(df.columns[1], sClose)
    /\ ret.value # df.columns[1]

(***************************************************************************)
(* src/features/indicators.py                                              *)
(* Series are sequences of cells, a cell a whole number or NaN.  A value    *)
(* with a square root in it is exact when the root is a whole number and   *)
(* is otherwise kept as [k |-> "surd"], the signed square of the value in  *)
(* n/d: it is a defined value, and its sign and order are those of n/d.    *)
(***************************************************************************)
Sign(x) == IF x > 0 THEN 1 ELSE IF x < 0 THEN -1 ELSE 0

\* +inf or -inf, the quotient of a non-zero value by zero
Inf(sign) == [k |-> "inf", n |-> sign, d |-> 1]

\* not NaN: a number, a surd or an infinity
IsDefined(v) == v.k \in {"num", "surd", "inf"}

\* sqrt(x) of a whole number x >= 0 known to be at most bound * bound
WholeRoots(x, bound) == {r \in 0..bound : r * r = x}

\* a * sqrt(x) / b with b # 0
RootQuotient(a, x, b, bound) ==
    LET roots == WholeRoots(x, bound)
    IN  IF roots # {}
        THEN Rat(Sign(b) * a * (CHOOSE r \in roots : TRUE), AbsInt(b))
        ELSE [k |-> "surd", n |-> Sign(a) * Sign(b) * a * a * x, d |-> b * b]

\* the largest distance between two observations of the window
Spread(s, obs) ==
    IF obs = {} THEN 0 ELSE MaxOf({s[j].n : j \in obs}) - MinOf({s[j].n : j \in obs})

\* lines 16-18
sma(series, n) == RollingMean(series, n, Max2(1, n \div 2))

\* Series.diff()
diff(s) ==
    Series([i \in 1..Len(s) |->
        IF i > 1 /\ IsNum(s[i]) /\ IsNum(s[i - 1]) THEN Num(s[i].n - s[i - 1].n) ELSE NaN])

\* lines 21-35
rsi(series, n) ==
    LET delta == diff(series)
        up    == Series([i \in 1..Len(series) |->
                     IF IsNum(delta[i]) THEN Num(Max2(delta[i].n, 0)) ELSE NaN])
        down  == Series([i \in 1..Len(series) |->
                     IF IsNum(delta[i]) THEN Num(Max2(-delta[i].n, 0)) ELSE NaN])
    IN  Series([i \in 1..Len(series) |->
            LET lo == Max2(1, i - n + 1)
                G  == SumRange(up, lo, i)          \* n * gain
                L  == SumRange(down, lo, i)        \* n * loss
            IN  IF Cardinality(Observed(delta, i, n)) < n THEN NaN
                ELSE IF L = 0 THEN (IF G = 0 THEN NaN          \* rs = 0/0
                                    ELSE Num(100))             \* rs = inf
                ELSE Rat(100 * G, G + L)])        \* 100 - 100/(1 + G/L)

\* a variant of lib_atr averaging whatever the window holds (min_periods = 1)
atrNoWarmup(high, low, close, n) == RollingMean(true_range(high, low, close), n, 1)

\* lines 38-54
lib_atr(high, low, close, n) == RollingMean(true_range(high, low, close), n, n)

\* lines 62-66: (x - mean)/std with mean = S/cnt and std = sqrt(cnt*Q - S*S)/cnt
zscore(series, n) ==
    Series([i \in 1..Len(series) |->
        LET obs == Observed(series, i, n)
            cnt == Cardinality(obs)
            lo  == Max2(1, i - n + 1)
            S   == SumRange(series, lo, i)
            D   == cnt * SumSqRange(series, lo, i) - S * S
        IN  IF cnt < n \/ ~IsNum(series[i]) THEN NaN
            ELSE IF D = 0 THEN NaN                 \* 0/0: the window is flat
            ELSE RootQuotient(cnt * series[i].n - S, D, D, cnt * Spread(series, obs))])

\* lines 69-80 with num_std = 2: 2*num_std*std/ma = 4*sqrt(cnt*Q - S*S)/S
lib_bb_width(series, n) ==
    Series([i \in 1..Len(series) |->
        LET obs == Observed(series, i, n)
            cnt == Cardinality(obs)
            lo  == Max2(1, i - n + 1)
            S   == SumRange(series, lo, i)
            D   == cnt * SumSqRange(series, lo, i) - S * S
        IN  IF cnt < n THEN NaN
            ELSE IF S = 0 THEN (IF D = 0 THEN NaN ELSE Inf(1))  \* 0/0, x/0
            ELSE RootQuotient(4, D, S, cnt * Spread(series, obs))])

RatAdd(a, b) == Rat(a.n * b.d + b.n * a.d, a.d * b.d)

RECURSIVE RatSumRange(_, _, _)
RatSumRange(s, lo, hi) ==
    IF lo > hi THEN Num(0)
    ELSE IF IsNum(s[hi]) THEN RatAdd(s[hi], RatSumRange(s, lo, hi - 1))
    ELSE RatSumRange(s, lo, hi - 1)

\* s.rolling(w, min_periods=minp).mean() of a series of fractions
RollingMeanOfRatios(s, w, minp) ==
    Series([i \in 1..Len(s) |->
        LET cnt == Cardinality(Observed(s, i, w))
            sum == RatSumRange(s, Max2(1, i - w + 1), i)
        IN  IF cnt >= minp /\ cnt > 0 THEN Rat(sum.n, sum.d * cnt) ELSE NaN])

\* lines 96-99: np.where turns every comparison with NaN into the 0 branch
directional_movement(move, other) ==
    Series([i \in 1..Len(move) |->
        IF IsNum(move[i]) /\ IsNum(other[i]) /\ move[i].n > other[i].n /\ move[i].n > 0
        THEN move[i] ELSE Num(0)])

\* -low.diff()
negated(s) == Series([i \in 1..Len(s) |-> IF IsNum(s[i]) THEN Num(-s[i].n) ELSE NaN])

\* lines 105-108 at row i, with P and M the window sums of +DM and -DM and
\* atr_series = T/n:  plus_di = 100*P/(T/n), minus_di = 100*M/(T/n)
dx_at(P, M, mean_tr) ==
    IF ~IsNum(mean_tr) THEN NaN
    ELSE IF mean_tr.n = 0 THEN NaN      \* each DI is 0/0 = NaN or x/0 = inf; inf - inf = NaN
    ELSE IF P + M = 0 THEN NaN          \* 0/0
    ELSE Rat(100 * AbsInt(P - M), P + M)

\* lines 83-110
adx(high, low, close, n) ==
    LET up_move    == diff(high)
        down_move  == negated(diff(low))
        plus_dm    == directional_movement(up_move, down_move)
        minus_dm   == directional_movement(down_move, up_move)
        atr_series == RollingMean(true_range(high, low, close), n, n)
        dx == Series([i \in 1..Len(close) |->
                  IF i < n THEN NaN                         \* rolling sums: min_periods = n
                  ELSE dx_at(SumRange(plus_dm, i - n + 1, i),
                             SumRange(minus_dm, i - n + 1, i), atr_series[i])])
    IN  RollingMeanOfRatios(dx, n, n)

(***************************************************************************)
(* Calls of the indicator library on short tables labelled High, Low,      *)
(* Close.  Bars rise, fall, stay flat, have prices of either sign or are    *)
(* missing.                                                                *)
(***************************************************************************)
IndicatorNames == {"rsi", "atr", "adx", "zscore", "bb_width"}
IndKinds == {"base", "up", "neg", "pos", "zero", "gap"}
MaxIndBars == 5
IndWindows == {2, 3}

IndBar(kind) ==
    CASE kind = "base" -> Bar(10, 11, 9, 10)
      [] kind = "up"   -> Bar(12, 13, 11, 12)
      [] kind = "neg"  -> Bar(-1, 0, -2, -1)
      [] kind = "pos"  -> Bar(1, 2, 0, 1)
      [] kind = "zero" -> Bar(0, 0, 0, 0)
      [] kind = "gap"  -> [o |-> NaN, h |-> NaN, l |-> NaN, c |-> NaN, v |-> Num(100)]

\* the last four bars vary freely, the bars before them rise or stay
IndHeadKinds == {"base", "up"}
IndHistories ==
    UNION {{[i \in 1..n |-> IndBar(ks[i])] :
               ks \in {f \in [1..n -> IndKinds] :
                          \A i \in 1..n : i <= n - 4 => f[i] \in IndHeadKinds}} :
           n \in 1..MaxIndBars}

IndSchema == SchemaOf(<<"h", "l", "c">>, [r \in BarFields |-> Str(Cap(Field(r)))])

IndTables == {Frame(IndSchema, bars) : bars \in IndHistories}

\* the indicator called on the table's columns
indicator(name, frame, n) ==
    LET high  == Column(frame, Str(sCapHigh))
        low   == Column(frame, Str(sCapLow))
        close == Column(frame, Str(sCapClose))
    IN  CASE name = "rsi"      -> rsi(close, n)
          [] name = "atr"      -> lib_atr(high, low, close, n)
          [] name = "adx"      -> adx(high, low, close, n)
          [] name = "zscore"   -> zscore(close, n)
          [] name = "bb_width" -> lib_bb_width(close, n)

InitInd ==
    /\ df \in IndTables
    /\ args \in {[n |-> n] : n \in IndWindows}
    /\ call = Idle
    /\ ret = NoValue

CallIndicator(name) ==
    /\ call = Idle
    /\ call' = [fn |-> name, role |-> "none"]
    /\ ret' = Returned(indicator(name, df, args.n))
    /\ UNCHANGED <<df, args>>

NextInd ==
    \/ \E name \in IndicatorNames : CallIndicator(name)
    \/ Done

SpecInd == InitInd /\ [][NextInd]_vars

(***************************************************************************)
(* What the indicator claims speak of.  Rows are counted from 1: the       *)
(* claims' index i is row i + 1.                                           *)
(***************************************************************************)
IndCalled == call.fn \in IndicatorNames
iHigh  == Column(df, Str(sCapHigh))
iLow   == Column(df, Str(sCapLow))
iClose == Column(df, Str(sCapClose))

BarsDefined(a, b) ==
    \A r \in a..b : IsNum(iHigh[r]) /\ IsNum(iLow[r]) /\ IsNum(iClose[r])
\* the closes of rows a..b are one value
Flat(a, b) == \A r \in a..b : iClose[r].n = iClose[a].n
AllZero(a, b) == \A r \in a..b : iClose[r].n = 0
\* row r has a directional movement: the high rose or the low fell, and not
\* by the same amount
Moves(r) ==
    /\ r > 1
    /\ LET up == iHigh[r].n - iHigh[r - 1].n
           down == iLow[r - 1].n - iLow[r].n
       IN  up # down /\ (up > 0 \/ down > 0)

\* the first row an indicator of window n can be defined at
FirstRow(name, n) ==
    CASE name = "rsi" -> n + 1
      [] name = "adx" -> 2 * n - 1
      [] OTHER        -> n
\* the first of the rows that row r of the indicator is computed from
FromRow(name, n, r) ==
    CASE name = "rsi" -> r - n
      [] name = "adx" -> Max2(1, r - 2 * n + 1)
      [] OTHER        -> r - n + 1
\* the quotient of the indicator is 0/0 at row r
Degenerate(name, n, r) ==
    CASE name = "rsi"      -> Flat(r - n, r)
      [] name = "zscore"   -> Flat(r - n + 1, r)
      [] name = "bb_width" -> AllZero(r - n + 1, r)
      [] name = "atr"      -> FALSE
      [] name = "adx"      ->
            \E j \in (r - n + 1)..r : \A k \in (j - n + 1)..j : ~Moves(k)

\* C14 (amended): called with window n, ATR, z-score and band width are
\* undefined at indices 0..n-2, RSI at indices 0..n-1 and ADX at indices
\* 0..2n-3; at every later index whose contributing bars are all defined the
\* indicator is defined unless its quotient is 0/0 (RSI and z-score on flat
\* closes, band width on closes that are all 0, ADX when one of the n trailing
\* windows has no directional movement)
Thm_C14 ==
    IndCalled =>
        \A r \in 1..Len(ret.value) :
            /\ r < FirstRow(call.fn, args.n) => ~IsDefined(ret.value[r])
            /\ (r >= FirstRow(call.fn, args.n) /\ BarsDefined(FromRow(call.fn, args.n, r), r))
                   => (IsDefined(ret.value[r]) <=> ~Degenerate(call.fn, args.n, r))

\* ADX with window 3 is defined at index 4 = 2n - 2 and at no index before
Wit_C14 ==
    /\ call.fn = "adx" /\ args.n = 3 /\ Len(ret.value) = 5
    /\ BarsDefined(1, 5)
    /\ IsDefined(ret.value[5])
    /\ \A r \in 1..4 : ~IsDefined(ret.value[r])

\* C14 as stated: undefined at indices 0..n-2 and defined at every index
\* >= n-1 when every bar up to it is defined
Cex_C14 ==
    IndCalled =>
        \A r \in 1..Len(ret.value) :
            /\ r < args.n => ~IsDefined(ret.value[r])
            /\ (r >= args.n /\ BarsDefined(1, r)) => IsDefined(ret.value[r])

\* the sum, and cnt*Q - S*S (cnt*cnt times the population variance), of the
\* closes of rows a..b
CloseSum(a, b) == SumRange(iClose, a, b)
CloseSpread(a, b) == (b - a + 1) * SumSqRange(iClose, a, b) - CloseSum(a, b) * CloseSum(a, b)

\* v = 4 * sqrt(x) / s, compared through squares and signs
IsFourRootsOver(v, x, s) ==
    CASE v.k = "num"  -> Sign(v.n) = Sign(s) * Sign(x) /\ v.n * v.n * s * s = 16 * x * v.d * v.d
      [] v.k = "surd" -> v.n * s * s = Sign(s) * 16 * x * v.d
      [] OTHER        -> FALSE

\* C15: the band width of the library is 2*k*std/mean (k = 2, population
\* std of the trailing n closes) and is undefined, not infinite and not
\* zero, whenever the mean of the trailing n closes is 0
Cex_C15 ==
    call.fn = "bb_width" =>
        \A r \in args.n..Len(ret.value) :
            BarsDefined(r - args.n + 1, r) =>
                IF CloseSum(r - args.n + 1, r) = 0
                THEN ~IsDefined(ret.value[r])
                ELSE IsFourRootsOver(ret.value[r], CloseSpread(r - args.n + 1, r),
                                     CloseSum(r - args.n + 1, r))

(***************************************************************************)
(* src/patterns/chart_patterns.py                                          *)
(* Fractions are exact.  The tables have closes above 0 and the calls pass  *)
(* bb_n = 2, for which the deviation of the window, |a - b|/2, and so the   *)
(* band width 4*|a - b|/(a + b), is a fraction.                             *)
(***************************************************************************)
RECURSIVE Gcd(_, _)
Gcd(x, y) == IF y = 0 THEN x ELSE Gcd(y, x % y)

\* the fraction x/y, y # 0, in lowest terms with a positive denominator
Frac(x, y) ==
    LET g == Gcd(AbsInt(x), AbsInt(y))
    IN  Rat(Sign(y) * (x \div g), AbsInt(y) \div g)

RatSub(a, b) == Frac(a.n * b.d - b.n * a.d, a.d * b.d)
RatPlus(a, b) == Frac(a.n * b.d + b.n * a.d, a.d * b.d)
RatTimes(a, b) == Frac(a.n * b.n, a.d * b.d)
\* Series.clip(0, 1) of one value
Clip01(v) == IF v.n < 0 THEN Num(0) ELSE IF v.n > v.d THEN Num(1) ELSE v

\* the value of rank k (0 the smallest) among the observations of s at rows obs
RankedValue(s, obs, k) ==
    s[CHOOSE j \in obs :
        /\ Cardinality({i \in obs : RatLt(s[i], s[j])}) <= k
        /\ Cardinality({i \in obs : RatLe(s[i], s[j])}) > k]

\* s.rolling(win, min_periods=minp).quantile(pct/100), linear interpolation
RollingQuantile(s, pct, win, minp) ==
    Series([i \in 1..Len(s) |->
        LET obs  == Observed(s, i, win)
            cnt  == Cardinality(obs)
            pos  == pct * (cnt - 1)            \* 100 times the position
            lo   == RankedValue(s, obs, pos \div 100)
            hi   == RankedValue(s, obs, Min2(pos \div 100 + 1, cnt - 1))
        IN  IF cnt < minp \/ cnt = 0 THEN NaN
            ELSE IF pos % 100 = 0 THEN lo
            ELSE RatPlus(lo, RatTimes(RatSub(hi, lo), Frac(pos % 100, 100)))])

\* lines 25-27 with win = 100
_rolling_quantile(s, pct) == RollingQuantile(s, pct, 100, Min2(50, 100 \div 2))

\* s.rolling(win, min_periods=minp).median()
RollingMedian(s, win, minp) ==
    Series([i \in 1..Len(s) |->
        LET obs == Observed(s, i, win)
            cnt == Cardinality(obs)
        IN  IF cnt < minp \/ cnt = 0 THEN NaN
            ELSE IF cnt % 2 = 1 THEN RankedValue(s, obs, cnt \div 2)
            ELSE RatTimes(RatPlus(RankedValue(s, obs, cnt \div 2 - 1),
                                  RankedValue(s, obs, cnt \div 2)), Frac(1, 2))])

\* s.rolling(win, min_periods=minp).min() and .max() of a series of fractions
RollingLeast(s, win, minp) ==
    Series([i \in 1..Len(s) |->
        LET obs == Observed(s, i, win)
        IN  IF Cardinality(obs) < minp \/ obs = {} THEN NaN
            ELSE RankedValue(s, obs, 0)])
RollingGreatest(s, win, minp) ==
    Series([i \in 1..Len(s) |->
        LET obs == Observed(s, i, win)
        IN  IF Cardinality(obs) < minp \/ obs = {} THEN NaN
            ELSE RankedValue(s, obs, Cardinality(obs) - 1)])

\* a <= b of two series: False where either side is NaN
SeriesLe(a, b) ==
    [i \in 1..Len(a) |-> IsNum(a[i]) /\ IsNum(b[i]) /\ RatLe(a[i], b[i])]

\* lines 55-57 and 93-95: atr_series <= atr_median
compression(high, low, close, atr_win) ==
    LET atr_series == lib_atr(high, low, close, 14)
        atr_median == RollingMedian(atr_series, atr_win, Max2(5, atr_win \div 2))
    IN  SeriesLe(atr_series, atr_median)

\* lines 58-60 and 96-98: (close - ma).abs() / rng, rng the range with 0 made NaN
band_distance(high, low, close, squeeze_win) ==
    LET ma == sma(close, squeeze_win)
    IN  Series([i \in 1..Len(close) |->
            IF ~(IsNum(close[i]) /\ IsNum(ma[i]) /\ IsNum(high[i]) /\ IsNum(low[i])) THEN NaN
            ELSE IF high[i].n - low[i].n = 0 THEN NaN
            ELSE Frac(AbsInt(close[i].n * ma[i].d - ma[i].n), ma[i].d * (high[i].n - low[i].n))])

\* a variant of confirm_rows asking for any two of the three conditions
confirmAnyTwo(tight, compressed, squeeze) ==
    [i \in 1..Len(tight) |->
        \/ tight[i] /\ compressed[i]
        \/ tight[i] /\ squeeze[i]
        \/ compressed[i] /\ squeeze[i]]

\* line 62: (tight & compression & squeeze).fillna(False)
confirm_rows(tight, compressed, squeeze) ==
    [i \in 1..Len(tight) |-> tight[i] /\ compressed[i] /\ squeeze[i]]

missing_chart_column(frame) ==
    \E name \in {sCapClose, sCapHigh, sCapLow} : ~has_label(frame, name)

\* lines 30-62
bullish_pattern_confirm(frame, a) ==
    IF missing_chart_column(frame) THEN Raised("KeyError")
    ELSE
    LET close == Column(frame, Str(sCapClose))
        high  == Column(frame, Str(sCapHigh))
        low   == Column(frame, Str(sCapLow))
        width == lib_bb_width(close, a.bb_n)
        q     == _rolling_quantile(width, a.bb_pct)
        tight == SeriesLe(width, q)
        band  == band_distance(high, low, close, a.squeeze_win)
        squeeze == [i \in 1..Len(close) |-> IsNum(band[i]) /\ RatLe(band[i], Frac(20, 100))]
    IN  Returned(confirm_rows(tight, compression(high, low, close, a.atr_win), squeeze))

\* lines 88-92: 1 - ((width - roll_min)/(roll_max - roll_min)).clip(0, 1)
tight_score(width) ==
    LET roll_min == RollingLeast(width, 100, 50)
        roll_max == RollingGreatest(width, 100, 50)
    IN  Series([i \in 1..Len(width) |->
            IF ~(IsNum(width[i]) /\ IsNum(roll_min[i]) /\ IsNum(roll_max[i])) THEN NaN
            ELSE IF RatEq(roll_max[i], roll_min[i]) THEN NaN     \* 0/0
            ELSE RatSub(Num(1), Clip01(RatTimes(RatSub(width[i], roll_min[i]),
                     LET span == RatSub(roll_max[i], roll_min[i])
                     IN  Frac(span.d, span.n))))])

\* line 99: (1 - (band / 0.20)).clip(0, 1)
band_score(band) ==
    Series([i \in 1..Len(band) |->
        IF IsNum(band[i]) THEN Clip01(RatSub(Num(1), RatTimes(band[i], Num(5)))) ELSE NaN])

\* line 100: a NaN term makes the sum NaN
weighted_sum(tight, atr_score, squeeze) ==
    Series([i \in 1..Len(tight) |->
        IF IsNum(tight[i]) /\ IsNum(squeeze[i])
        THEN RatPlus(RatTimes(Frac(5, 10), tight[i]),
                     RatPlus(RatTimes(Frac(3, 10), atr_score[i]),
                             RatTimes(Frac(2, 10), squeeze[i])))
        ELSE NaN])

\* a variant of final_score that returns the weighted sum as it is
scoreAsSummed(score) == score

\* line 101: score.fillna(0).clip(0, 1)
final_score(score) ==
    Series([i \in 1..Len(score) |-> IF IsNum(score[i]) THEN Clip01(score[i]) ELSE Num(0)])

\* lines 65-101
pattern_score(frame, a) ==
    IF missing_chart_column(frame) THEN Raised("KeyError")
    ELSE
    LET close == Column(frame, Str(sCapClose))
        high  == Column(frame, Str(sCapHigh))
        low   == Column(frame, Str(sCapLow))
        compressed == compression(high, low, close, a.atr_win)
        atr_score  == [i \in 1..Len(close) |-> IF compressed[i] THEN Num(1) ELSE Num(0)]
    IN  Returned(final_score(weighted_sum(
            tight_score(lib_bb_width(close, a.bb_n)),
            atr_score,
            band_score(band_distance(high, low, close, a.squeeze_win)))))

(***************************************************************************)
(* The tables the chart patterns are called on: a run of regular bars      *)
(* (flat, swinging with period 3, or rising bar by bar as in               *)
(* tests/test_patterns.py) and two most recent bars that vary.             *)
(***************************************************************************)
ChartPatterns == {"flat", "swing", "trend"}
ChartTailKinds == {"same", "calm", "wide", "point", "gap"}
ShortRows == 25
\* rows for the 50 band widths the 100-bar window asks for, at bb_n = 2
WarmRows == Min2(50, 100 \div 2) + 1
ExtraChartRows == 1
ChartRowCounts == {ShortRows} \cup (WarmRows..(WarmRows + ExtraChartRows))

ChartRegularBar(pat, i) ==
    CASE pat = "flat"  -> Bar(10, 11, 9, 10)
      [] pat = "swing" -> IF i % 3 = 0 THEN Bar(10, 13, 9, 12) ELSE Bar(10, 11, 9, 10)
      [] pat = "trend" -> Bar(10 + i, 12 + i, 8 + i, 11 + i)

ChartTailBar(kind, pat, i) ==
    CASE kind = "same"  -> ChartRegularBar(pat, i)
      [] kind = "calm"  -> Bar(10, 11, 10, 10)
      [] kind = "wide"  -> Bar(10, 20, 5, 15)
      [] kind = "point" -> Bar(10, 10, 10, 10)
      [] kind = "gap"   -> [o |-> NaN, h |-> NaN, l |-> NaN, c |-> NaN, v |-> Num(100)]

ChartHistories ==
    {[i \in 1..n |-> IF i <= n - 2 THEN ChartRegularBar(pat, i)
                     ELSE ChartTailBar(tail[i - (n - 2)], pat, i)] :
        n \in ChartRowCounts, pat \in ChartPatterns,
        tail \in {<<x, y>> : x \in ChartTailKinds, y \in ChartTailKinds}}

ChartTables ==
    {Frame(CandleSchema, bars) : bars \in ChartHistories}
    \cup {Frame(SchemaOf(OHLC, [r \in BarFields |-> Str(Field(r))]), bars) :
             bars \in {h \in ChartHistories : Len(h) = ShortRows /\ h[Len(h)] = ChartRegularBar("flat", 1)}}

\* bb_n = 2 with the other defaults of lines 32-35, and shorter windows
ChartArgSets ==
    { [bb_n |-> 2, bb_pct |-> 5,  atr_win |-> 20, squeeze_win |-> 20],
      [bb_n |-> 2, bb_pct |-> 50, atr_win |-> 6,  squeeze_win |-> 2] }

InitChart ==
    /\ df \in ChartTables
    /\ args \in ChartArgSets
    /\ call = Idle
    /\ ret = NoValue

\* bp = bullish_pattern_confirm(df, ...)
CallPatternConfirm ==
    /\ call = Idle
    /\ call' = [fn |-> "bullish_pattern_confirm", role |-> "none"]
    /\ ret' = bullish_pattern_confirm(df, args)
    /\ UNCHANGED <<df, args>>

\* ps = pattern_score(df, ...)
CallPatternScore ==
    /\ call = Idle
    /\ call' = [fn |-> "pattern_score", role |-> "none"]
    /\ ret' = pattern_score(df, args)
    /\ UNCHANGED <<df, args>>

NextChart ==
    \/ CallPatternConfirm
    \/ CallPatternScore
    \/ Done

SpecChart == InitChart /\ [][NextChart]_vars

(***************************************************************************)
(* What the chart-pattern claims speak of                                  *)
(***************************************************************************)
GotScore   == call.fn = "pattern_score" /\ ~missing_chart_column(df)
GotConfirm == call.fn = "bullish_pattern_confirm" /\ ~missing_chart_column(df)
pClose == Column(df, Str(sCapClose))
pHigh  == Column(df, Str(sCapHigh))
pLow   == Column(df, Str(sCapLow))
pWidth == lib_bb_width(pClose, args.bb_n)
pAtr   == lib_atr(pHigh, pLow, pClose, 14)
pSma   == sma(pClose, args.squeeze_win)
\* all of a bar's fields are missing at row i
BarMissing(i) == ~IsNum(pClose[i]) /\ ~IsNum(pHigh[i]) /\ ~IsNum(pLow[i])

\* C13: pattern_score returns one value per row, each a number in [0, 1]:
\* no row is NaN and the call raises nothing
Thm_C13 ==
    GotScore =>
        /\ ret.raised = "none"
        /\ Len(ret.value) = NRows(df)
        /\ \A i \in 1..NRows(df) :
              IsNum(ret.value[i]) /\ ret.value[i].n >= 0 /\ ret.value[i].n <= ret.value[i].d

\* a table whose last bar is missing and one of whose rows scores strictly
\* between 0 and 1
Wit_C13 ==
    /\ GotScore
    /\ BarMissing(NRows(df))
    /\ \E i \in 1..NRows(df) : ret.value[i].n > 0 /\ ret.value[i].n < ret.value[i].d

\* the band width of row i is at most the bb_pct-quantile of the widths of
\* the trailing 100 bars (50 of them at least)
WidthInQuantile(i) ==
    LET q == _rolling_quantile(pWidth, args.bb_pct)[i]
    IN  IsNum(pWidth[i]) /\ IsNum(q) /\ RatLe(pWidth[i], q)
\* ATR(14) of row i is at most its median over the trailing atr_win bars
AtrUnderMedian(i) ==
    LET m == RollingMedian(pAtr, args.atr_win, Max2(5, args.atr_win \div 2))[i]
    IN  IsNum(pAtr[i]) /\ IsNum(m) /\ RatLe(pAtr[i], m)
\* |close - SMA| / (high - low) <= 0.20 at row i
CloseNearAverage(i) ==
    /\ IsNum(pClose[i]) /\ IsNum(pSma[i]) /\ IsNum(pHigh[i]) /\ IsNum(pLow[i])
    /\ pHigh[i].n # pLow[i].n
    /\ LET range == pHigh[i].n - pLow[i].n
           gap   == AbsInt(pClose[i].n * pSma[i].d - pSma[i].n)    \* |close - SMA| * d
       IN  range > 0 => 100 * gap <= 20 * range * pSma[i].d

OrZero(v) == IF IsNum(v) THEN v ELSE Num(0)
\* 0.5 * (1 - rank) + 0.3 * (ATR <= median) + 0.2 * max(0, 1 - band/0.20) at
\* row i, each component counted as 0 where its input is undefined
ComponentSum(i) ==
    LET rank  == OrZero(tight_score(pWidth)[i])
        calm  == IF AtrUnderMedian(i) THEN Num(1) ELSE Num(0)
        near  == OrZero(band_score(band_distance(pHigh, pLow, pClose, args.squeeze_win))[i])
    IN  Clip01(RatPlus(RatTimes(Frac(5, 10), rank),
                       RatPlus(RatTimes(Frac(3, 10), calm), RatTimes(Frac(2, 10), near))))

\* C17: the score of every row is the weighted sum of its three components,
\* a component with an undefined input counting 0 and the others still
\* counting
Cex_C17 ==
    GotScore => \A i \in 1..NRows(df) : RatEq(ret.value[i], ComponentSum(i))

\* C20: wherever bullish_pattern_confirm is true, pattern_score of the same
\* table and arguments is at least 0.3
Cex_C20 ==
    GotConfirm =>
        \A i \in 1..NRows(df) :
            ret.value[i] => RatLe(Frac(3, 10), pattern_score(df, args).value[i])

====
